---- MODULE Spec2Model ----
\* Vendor dashboard API: the authorization guard (utils/authServer.ts) and the
\* post-lifecycle route handlers (app/api/vendor/**/route.ts), over the two
\* storage tables they use (approved_vendors, posts).
EXTENDS Integers, Sequences, FiniteSets, TLC

\* ---------------------------------------------------------------- bounds
\* number of requests that change a stored row or image in one behaviour
MaxWrites == 3
\* last value of the wall clock
MaxTime == 1

\* ------------------------------------------------------------- constants
\* 30 * 24 * 60 * 60 * 1000 ms (posts/route.ts:70, repost route:249); the
\* model's clock counts seconds, which keeps the sum in TLC's integers.
ThirtyDays == 30 * 24 * 60 * 60

MOCK_TEST_TOKEN == "mock-test-token-for-dev"
TEST_USER_AUTH_ID_FOR_BACKDOOR == "34fdd697-0589-4805-9f44-fc9c20c329c3"

\* The JSON null of a nullable text column.
Null == "null"

\* -------------------------------------------------- credentials and JWTs
\* What a bearer string is, independently of what the code does with it:
\* whether it parses as a JWT, whether its signature matches the signing
\* secret, whether its exp claim has passed, and the sub claim it carries.
TokenClaims ==
    [t \in {"jwt-uA", "jwt-uT", "jwt-uC", "jwt-uD", "jwt-uE",
            "jwt-uA-expired", "jwt-uA-forged", "garbage", MOCK_TEST_TOKEN} |->
        CASE t = "jwt-uA"         -> [jwt |-> TRUE,  sig |-> TRUE,  expired |-> FALSE, sub |-> "uA"]
          [] t = "jwt-uT"         -> [jwt |-> TRUE,  sig |-> TRUE,  expired |-> FALSE, sub |-> TEST_USER_AUTH_ID_FOR_BACKDOOR]
          [] t = "jwt-uC"         -> [jwt |-> TRUE,  sig |-> TRUE,  expired |-> FALSE, sub |-> "uC"]
          [] t = "jwt-uD"         -> [jwt |-> TRUE,  sig |-> TRUE,  expired |-> FALSE, sub |-> "uD"]
          [] t = "jwt-uE"         -> [jwt |-> TRUE,  sig |-> TRUE,  expired |-> FALSE, sub |-> "uE"]
          [] t = "jwt-uA-expired" -> [jwt |-> TRUE,  sig |-> TRUE,  expired |-> TRUE,  sub |-> "uA"]
          [] t = "jwt-uA-forged"  -> [jwt |-> TRUE,  sig |-> FALSE, expired |-> FALSE, sub |-> "uA"]
          [] OTHER                -> [jwt |-> FALSE, sig |-> FALSE, expired |-> FALSE, sub |-> Null]]

Tokens == DOMAIN TokenClaims

\* The Authorization header of a request: absent, or the words of its value.
NoHeader == [present |-> FALSE, parts |-> <<>>]

Bearer(t) == [present |-> TRUE, parts |-> <<"Bearer", t>>]

AuthHeaders == {NoHeader, [present |-> TRUE, parts |-> <<"Bearer">>]} \cup {Bearer(t) : t \in Tokens}

\* authHeader?.split(' ')[1]; "" stands for undefined/empty (falsy).
HeaderToken(h) == IF h.present /\ Len(h.parts) >= 2 THEN h.parts[2] ELSE ""

\* jwt.verify(token, secret): the decoded claims, or a throw.
JwtVerify(token) ==
    IF token \in Tokens /\ TokenClaims[token].jwt /\ TokenClaims[token].sig
                        /\ ~TokenClaims[token].expired
    THEN [ok |-> TRUE, sub |-> TokenClaims[token].sub]
    ELSE [ok |-> FALSE, sub |-> Null]

\* ------------------------------------------------------- storage tables
Configs == {"cfg1", "cfg2"}

\* categories table (id, name); c1 is named after c2 so that id order and
\* name order differ.
Categories == {[id |-> "c1", name |-> "Vehicles"], [id |-> "c2", name |-> "Books"]}

\* approved_vendors rows. vB is the vendor linked to the test user; vE is an
\* active vendor of another tenant to whom no category is assigned.
InitialVendors ==
    { [id |-> "vA", user_id |-> "uA", email |-> "a@x", company_name |-> "ACo",
       allowed_categories |-> {"c1", "c2"}, status |-> "active", config_id |-> "cfg1"],
      [id |-> "vB", user_id |-> TEST_USER_AUTH_ID_FOR_BACKDOOR, email |-> "testcars@example.com",
       company_name |-> "BCo", allowed_categories |-> {"c1"}, status |-> "active",
       config_id |-> "cfg1"],
      [id |-> "vC", user_id |-> "uC", email |-> "c@x", company_name |-> "CCo",
       allowed_categories |-> {}, status |-> "inactive", config_id |-> "cfg1"],
      [id |-> "vE", user_id |-> "uE", email |-> "e@x", company_name |-> "ECo",
       allowed_categories |-> {}, status |-> "active", config_id |-> "cfg2"] }

VARIABLES
    approved_vendors,   \* the approved_vendors table
    posts,              \* the posts table: a set of rows, id is the primary key
    now,                \* the wall clock (new Date())
    uuidCount,          \* uuidv4() values stored in rows so far
    writes,             \* requests that changed a stored row or image
    images,             \* URLs of the images in external storage
    deleted,            \* ids of the posts a DELETE request was answered 200 for
    last,               \* the last request, the steps it took and its response
    session,            \* the user signed in on the token route's storage client
    inflight,           \* PATCH requests in service side by side
    browser             \* the dashboard in the vendor's browser

vars == <<approved_vendors, posts, now, uuidCount, writes, images, deleted, last,
          session, inflight, browser>>

\* ------------------------------------------------ authorization guard
MsgMissing == "Authentication token missing."
MsgInvalid == "Invalid or expired authentication token."
MsgNotActive == "User is not an active approved vendor."

\* .from('approved_vendors').select('*').eq('user_id', sub).single():
\* the row when exactly one matches, an error otherwise.
VendorLookup(vendors, sub) ==
    LET rows == {v \in vendors : v.user_id = sub}
    IN  IF Cardinality(rows) = 1
        THEN [error |-> FALSE, data |-> CHOOSE v \in rows : TRUE]
        ELSE [error |-> TRUE, data |-> [id |-> Null, status |-> Null]]

NoVendor ==
    [id |-> Null, user_id |-> Null, email |-> Null, company_name |-> Null,
     allowed_categories |-> {}, status |-> Null, config_id |-> Null]

AuthThrow(msg, steps) == [ok |-> FALSE, error |-> msg, vendor |-> NoVendor, steps |-> steps]

\* Mutant: the status of the vendor found is not looked at.
VendorCheckFails_StatusIgnored(res) == res.error

\* if (vendorError || !vendorData || vendorData.status !== 'active')
VendorCheckFails(res) == res.error \/ res.data.status # "active"

\* Mutant: a missing vendor and an inactive vendor get different messages.
VendorCheckMessage_Telling(res) ==
    IF res.error THEN "No vendor profile is linked to this account." ELSE MsgNotActive

\* The message thrown when the vendor check fails, whatever made it fail.
VendorCheckMessage(res) == MsgNotActive

\* getAuthenticatedVendor(request): the vendor, or the thrown Error's message;
\* steps lists what it did on the way ("verify" = jwt.verify, "lookup" = the
\* approved_vendors query).
getAuthenticatedVendor(header, vendors) ==
    LET token == HeaderToken(header)
    IN  IF token = "" THEN AuthThrow(MsgMissing, <<>>)
        ELSE LET mock    == token = MOCK_TEST_TOKEN
                 ver     == JwtVerify(token)
                 steps1  == IF mock THEN <<>> ELSE <<"verify">>
             IN  IF ~mock /\ ~ver.ok THEN AuthThrow(MsgInvalid, steps1)
                 ELSE LET sub == IF mock THEN TEST_USER_AUTH_ID_FOR_BACKDOOR ELSE ver.sub
                          res == VendorLookup(vendors, sub)
                          steps2 == steps1 \o <<"lookup">>
                      IN  IF VendorCheckFails(res)
                          THEN AuthThrow(VendorCheckMessage(res), steps2)
                          ELSE [ok |-> TRUE, error |-> "", vendor |-> res.data,
                                steps |-> steps2]

\* ------------------------------------------------------------ responses
\* What a handler returns: the HTTP response (status, detail, body), the
\* storage and external steps it took, the posts table it leaves and the
\* number of uuidv4() values it stored in a row.
Reply(status, detail, body, steps, table, uuids) ==
    [status |-> status, detail |-> detail, body |-> body, steps |-> steps,
     posts |-> table, uuids |-> uuids]

AuthMessages401 == {MsgMissing, MsgInvalid}

\* The catch block of me, categories, config/[configId] and upload-image:
\* 401 for the two credential messages, 403 for the vendor message, else 500.
CatchPlain(msg, steps, table) ==
    IF msg \in AuthMessages401 THEN Reply(401, msg, <<>>, steps, table, 0)
    ELSE IF msg = MsgNotActive THEN Reply(403, msg, <<>>, steps, table, 0)
    ELSE Reply(500, msg, <<>>, steps, table, 0)

\* The catch block of posts/[postId] (GET, DELETE, PATCH) and of repost: as
\* CatchPlain; the extra 'unauthorized to ...' test matches no thrown message.
CatchPostId(msg, steps, table) ==
    IF msg \in AuthMessages401 THEN Reply(401, msg, <<>>, steps, table, 0)
    ELSE IF msg = MsgNotActive THEN Reply(403, msg, <<>>, steps, table, 0)
    ELSE Reply(500, msg, <<>>, steps, table, 0)

\* The catch block of posts (GET, POST): its second test calls
\* error.includes(...) on the Error object, which is not a function, so for
\* every message that is not one of the two credential messages the catch
\* block itself throws a TypeError and the framework answers 500.
MsgUnhandled == "Internal Server Error"

CatchPosts(msg, steps, table) ==
    IF msg \in AuthMessages401 THEN Reply(401, msg, <<>>, steps, table, 0)
    ELSE Reply(500, MsgUnhandled, <<>>, steps, table, 0)

\* ------------------------------------------------------------- GET /me
GET_me(header, vendors, table) ==
    LET auth == getAuthenticatedVendor(header, vendors)
    IN  IF ~auth.ok THEN CatchPlain(auth.error, auth.steps, table)
        ELSE Reply(200, "", <<auth.vendor>>, auth.steps, table, 0)

\* ---------------------------------------------------------- GET /posts
\* .order('created_at', {ascending: false}): newest first; rows with equal
\* created_at come in an order the storage chooses (tie: by id, up or down).
Newest(rows, tie) ==
    CHOOSE r \in rows : \A q \in rows :
        \/ q = r
        \/ q.created_at < r.created_at
        \/ q.created_at = r.created_at /\ q.id # r.id
             /\ (IF tie = "up" THEN r.id < q.id ELSE r.id > q.id)

RECURSIVE OrderByCreatedAtDesc(_, _)
OrderByCreatedAtDesc(rows, tie) ==
    IF rows = {} THEN <<>>
    ELSE LET r == Newest(rows, tie)
         IN  <<r>> \o OrderByCreatedAtDesc(rows \ {r}, tie)

\* Mutant: the vendor_id filter is missing.
SelectOwnPosts_AnyVendor(table, vendor) == {p \in table : p.config_id = vendor.config_id}

\* .eq('vendor_id', vendor.id).eq('config_id', vendor.config_id)
SelectOwnPosts(table, vendor) ==
    {p \in table : p.vendor_id = vendor.id /\ p.config_id = vendor.config_id}

MsgListFailed == "Failed to retrieve your posts."

GET_posts(header, vendors, table, tie, dbError) ==
    LET auth == getAuthenticatedVendor(header, vendors)
    IN  IF ~auth.ok THEN CatchPosts(auth.error, auth.steps, table)
        ELSE LET steps == auth.steps \o <<"posts.select">>
             IN  IF dbError THEN CatchPosts(MsgListFailed, steps, table)
                 ELSE Reply(200, "", OrderByCreatedAtDesc(SelectOwnPosts(table, auth.vendor), tie),
                            steps, table, 0)

\* ------------------------------------------------------ GET /posts/{id}
\* .eq('id', postId).eq('vendor_id', vendor.id).single()
SelectOwnPost(table, postId, vendor) ==
    LET rows == {p \in table : p.id = postId /\ p.vendor_id = vendor.id}
    IN  IF Cardinality(rows) = 1 THEN rows ELSE {}

MsgGetNotFound == "Post not found or unauthorized to access."

\* Mutant: a post is handed out once; reading it takes it off the table.
GET_post_Consuming(header, postId, vendors, table) ==
    LET auth == getAuthenticatedVendor(header, vendors)
    IN  IF ~auth.ok THEN CatchPostId(auth.error, auth.steps, table)
        ELSE LET steps == auth.steps \o <<"posts.select">>
                 rows  == SelectOwnPost(table, postId, auth.vendor)
             IN  IF rows = {} THEN Reply(404, MsgGetNotFound, <<>>, steps, table, 0)
                 ELSE Reply(200, "", <<CHOOSE p \in rows : TRUE>>, steps, table \ rows, 0)

\* export async function GET (posts/[postId])
GET_post(header, postId, vendors, table) ==
    LET auth == getAuthenticatedVendor(header, vendors)
    IN  IF ~auth.ok THEN CatchPostId(auth.error, auth.steps, table)
        ELSE LET steps == auth.steps \o <<"posts.select">>
                 rows  == SelectOwnPost(table, postId, auth.vendor)
             IN  IF rows = {} THEN Reply(404, MsgGetNotFound, <<>>, steps, table, 0)
                 ELSE Reply(200, "", <<CHOOSE p \in rows : TRUE>>, steps, table, 0)

\* --------------------------------------------------------- POST /posts
\* post_data.f || dflt for a text, a numeric and a boolean field of the draft
\* (an absent field is undefined; "", 0 and false are falsy).
TextOr(d, f, dflt) == IF f \in DOMAIN d /\ d[f] # "" THEN d[f] ELSE dflt

\* price: null is written 0 (price || null stores null for 0 as well).
NumOrNull(d, f) == IF f \in DOMAIN d THEN d[f] ELSE 0

BoolOrFalse(d, f) == IF f \in DOMAIN d THEN d[f] ELSE FALSE

\* Mutant: the draft's own values for the fields the server owns are kept.
postToInsert_FromDraft(post_data, vendor, newPostId, editToken, t) ==
    [id |-> newPostId,
     title |-> TextOr(post_data, "title", ""),
     price |-> NumOrNull(post_data, "price"),
     category_id |-> TextOr(post_data, "category_id", ""),
     subcategory_id |-> TextOr(post_data, "subcategory_id", Null),
     status |-> TextOr(post_data, "status", "verified"),
     has_photo |-> BoolOrFalse(post_data, "has_photo"),
     photo_urls |-> IF "photo_urls" \in DOMAIN post_data THEN post_data.photo_urls ELSE <<>>,
     edit_token |-> editToken,
     edit_token_expires_at |-> t + ThirtyDays,
     vendor_id |-> TextOr(post_data, "vendor_id", vendor.id),
     is_vendor_post |-> TRUE,
     created_at |-> t,
     updated_at |-> t,
     published_at |-> t,
     expires_at |-> t + ThirtyDays,
     config_id |-> TextOr(post_data, "config_id", vendor.config_id),
     is_scraped |-> FALSE,
     scraped_url |-> Null]

\* const postToInsert: Post = {...}
postToInsert(post_data, vendor, newPostId, editToken, t) ==
    [id |-> newPostId,
     title |-> TextOr(post_data, "title", ""),
     price |-> NumOrNull(post_data, "price"),
     category_id |-> TextOr(post_data, "category_id", ""),
     subcategory_id |-> TextOr(post_data, "subcategory_id", Null),
     status |-> "verified",
     has_photo |-> BoolOrFalse(post_data, "has_photo"),
     photo_urls |-> <<>>,
     edit_token |-> editToken,
     edit_token_expires_at |-> t + ThirtyDays,
     vendor_id |-> vendor.id,
     is_vendor_post |-> TRUE,
     created_at |-> t,
     updated_at |-> t,
     published_at |-> t,
     expires_at |-> t + ThirtyDays,
     config_id |-> vendor.config_id,
     is_scraped |-> FALSE,
     scraped_url |-> Null]

\* Mutant: any existing category is accepted.
CategoryAllowed_AnyCategory(vendor, category_id) == category_id \in {c.id : c \in Categories}

\* vendor.allowed_categories.includes(postToInsert.category_id)
CategoryAllowed(vendor, category_id) == category_id \in vendor.allowed_categories

MsgNoPostData == "Post data is required."
MsgCategory == "Vendor is not allowed to post in the selected main category."
MsgCreateFailed == "Failed to create post: Database error"

\* body: [has_post_data, post_data]; uuids: uuidv4() values stored so far (a
\* fresh uuid is the next integer); dbError: the insert reports an error.
POST_posts(header, body, vendors, table, uuids, t, dbError) ==
    LET auth == getAuthenticatedVendor(header, vendors)
    IN  IF ~auth.ok THEN CatchPosts(auth.error, auth.steps, table)
        ELSE IF ~body.has_post_data
        THEN Reply(400, MsgNoPostData, <<>>, auth.steps, table, 0)
        ELSE LET row == postToInsert(body.post_data, auth.vendor, uuids + 1, uuids + 2, t)
             IN  IF ~CategoryAllowed(auth.vendor, row.category_id)
                 THEN Reply(403, MsgCategory, <<>>, auth.steps, table, 0)
                 ELSE LET steps == auth.steps \o <<"posts.insert">>
                      IN  IF dbError
                          THEN CatchPosts(MsgCreateFailed, steps, table)
                          ELSE Reply(200, "Post created successfully!",
                                     <<[postId |-> row.id, editToken |-> row.edit_token]>>,
                                     steps, table \cup {row}, 2)

\* ---------------------------------------------------- PATCH /posts/{id}
\* The row with the fields of the update set overwritten.
ApplyUpdate(row, updates) ==
    [f \in DOMAIN row |-> IF f \in DOMAIN updates THEN updates[f] ELSE row[f]]

\* .update(updates).eq('id', postId).eq('vendor_id', vendor.id): the rows that
\* match, and the table after the write.
UpdateTarget(table, postId, vendor) ==
    {p \in table : p.id = postId /\ p.vendor_id = vendor.id}

UpdateRows(table, postId, vendor, updates) ==
    LET hit == UpdateTarget(table, postId, vendor)
    IN  (table \ hit) \cup {ApplyUpdate(p, updates) : p \in hit}

\* The primary key stays unique.
UniqueIds(table) == \A p, q \in table : p.id = q.id => p = q

MsgBadPatch == "Post ID and update data are required."
MsgUpdateFailed == "Failed to update post: Database error"

\* body: [has_updates, updates]
PATCH_post(header, postId, body, vendors, table, t, dbError) ==
    LET auth == getAuthenticatedVendor(header, vendors)
    IN  IF ~auth.ok THEN CatchPostId(auth.error, auth.steps, table)
        ELSE IF ~body.has_updates
        THEN Reply(400, MsgBadPatch, <<>>, auth.steps, table, 0)
        ELSE LET updates == [f \in DOMAIN body.updates \cup {"updated_at"} |->
                                IF f = "updated_at" THEN t ELSE body.updates[f]]
                 steps   == auth.steps \o <<"posts.update">>
                 after   == UpdateRows(table, postId, auth.vendor, updates)
             IN  IF dbError \/ ~UniqueIds(after) \/ Cardinality(after) # Cardinality(table)
                 THEN CatchPostId(MsgUpdateFailed, steps, table)
                 ELSE Reply(200, "Post updated successfully!", <<>>, steps, after, 0)

\* --------------------------------------------------- DELETE /posts/{id}
\* A reply of a handler that calls an external function, which may change the
\* posts table and the stored images.
EdgeReply(status, detail, body, steps, table, imgs) ==
    [status |-> status, detail |-> detail, body |-> body, steps |-> steps,
     posts |-> table, uuids |-> 0, images |-> imgs]

WithImages(reply, imgs) == EdgeReply(reply.status, reply.detail, reply.body, reply.steps, reply.posts, imgs)

\* What the delete-post function may answer: a success reply, a reply without
\* success, or an error status.
DeleteOutcomes ==
    { [ok |-> TRUE, success |-> TRUE, status |-> 200],
      [ok |-> TRUE, success |-> FALSE, status |-> 200],
      [ok |-> FALSE, success |-> FALSE, status |-> 403] }

\* The delete-post function when it succeeds: it removes the post the edit
\* token belongs to and the images attached to it.
EdgeDeletePost(table, token, postId, config_id) ==
    {p \in table : ~(p.id = postId /\ p.edit_token = token /\ p.config_id = config_id)}

Range(seq) == {seq[i] : i \in DOMAIN seq}

EdgeDeleteImages(table, imgs, token, postId, config_id) ==
    imgs \ UNION {Range(p.photo_urls) : p \in table \ EdgeDeletePost(table, token, postId, config_id)}

MsgDeleteNotFound == "Post not found or unauthorized to delete."
MsgEdgeDelete == "Failed to delete post via Edge Function."
MsgDeleteFailed == "Failed to delete post."

\* Mutant: the row is removed before the function is called, whatever the
\* function then answers.
DELETE_post_RowFirst(header, postId, vendors, table, imgs, outcome) ==
    LET auth == getAuthenticatedVendor(header, vendors)
    IN  IF ~auth.ok THEN WithImages(CatchPostId(auth.error, auth.steps, table), imgs)
        ELSE LET steps == auth.steps \o <<"posts.select">>
                 rows  == SelectOwnPost(table, postId, auth.vendor)
             IN  IF rows = {} THEN EdgeReply(404, MsgDeleteNotFound, <<>>, steps, table, imgs)
                 ELSE LET postData == CHOOSE p \in rows : TRUE
                          call == <<[fn |-> "delete-post", token |-> postData.edit_token,
                                     postId |-> postId, config_id |-> postData.config_id]>>
                      IN  EdgeReply(IF outcome.ok /\ outcome.success THEN 200
                                    ELSE IF outcome.ok THEN 500 ELSE outcome.status,
                                    "deleted", call, steps \o <<"fn.delete-post">>,
                                    table \ rows, imgs)

\* export async function DELETE; outcome is what the delete-post function
\* answers when it is called.
DELETE_post(header, postId, vendors, table, imgs, outcome) ==
    LET auth == getAuthenticatedVendor(header, vendors)
    IN  IF ~auth.ok THEN WithImages(CatchPostId(auth.error, auth.steps, table), imgs)
        ELSE LET steps == auth.steps \o <<"posts.select">>
                 rows  == SelectOwnPost(table, postId, auth.vendor)
             IN  IF rows = {} THEN EdgeReply(404, MsgDeleteNotFound, <<>>, steps, table, imgs)
                 ELSE LET postData == CHOOSE p \in rows : TRUE
                          call == <<[fn |-> "delete-post", token |-> postData.edit_token,
                                     postId |-> postId, config_id |-> postData.config_id]>>
                      IN  IF ~outcome.ok
                          THEN EdgeReply(outcome.status, MsgEdgeDelete, call, steps \o <<"fn.delete-post">>,
                                         table, imgs)
                          ELSE IF outcome.success
                          THEN EdgeReply(200, "deleted", call, steps \o <<"fn.delete-post">>,
                                         EdgeDeletePost(table, postData.edit_token, postId, postData.config_id),
                                         EdgeDeleteImages(table, imgs, postData.edit_token, postId,
                                                          postData.config_id))
                          ELSE EdgeReply(500, MsgDeleteFailed, call, steps \o <<"fn.delete-post">>,
                                         table, imgs)

\* ----------------------------------------------- POST /posts/{id}/repost
\* Mutant: status and the scrape flags are copied from the original.
repostedPost_PlainCopy(originalPost, newPostId, newEditToken, t) ==
    [originalPost EXCEPT
        !.id = newPostId,
        !.edit_token = newEditToken,
        !.edit_token_expires_at = t + ThirtyDays,
        !.created_at = t,
        !.updated_at = t,
        !.published_at = t,
        !.expires_at = t + ThirtyDays]

\* const repostedPost: Post = { ...originalPost, ... }
repostedPost(originalPost, newPostId, newEditToken, t) ==
    [originalPost EXCEPT
        !.id = newPostId,
        !.edit_token = newEditToken,
        !.edit_token_expires_at = t + ThirtyDays,
        !.created_at = t,
        !.updated_at = t,
        !.published_at = t,
        !.expires_at = t + ThirtyDays,
        !.status = "verified",
        !.is_vendor_post = TRUE,
        !.is_scraped = FALSE,
        !.scraped_url = Null]

MsgRepostNotFound == "Original post not found or unauthorized to repost."
MsgRepostFailed == "Failed to repost item: Database error"

\* Mutant: the reposted row takes the place of the original.
POST_repost_Move(header, originalPostId, vendors, table, uuids, t, dbError) ==
    LET auth == getAuthenticatedVendor(header, vendors)
    IN  IF ~auth.ok THEN CatchPostId(auth.error, auth.steps, table)
        ELSE LET steps == auth.steps \o <<"posts.select">>
                 rows  == SelectOwnPost(table, originalPostId, auth.vendor)
             IN  IF rows = {} THEN Reply(404, MsgRepostNotFound, <<>>, steps, table, 0)
                 ELSE LET row == repostedPost(CHOOSE p \in rows : TRUE, uuids + 1, uuids + 2, t)
                      IN  IF dbError
                          THEN CatchPostId(MsgRepostFailed, steps \o <<"posts.insert">>, table)
                          ELSE Reply(200, "Post reposted successfully!",
                                     <<[postId |-> row.id, editToken |-> row.edit_token]>>,
                                     steps \o <<"posts.insert">>, (table \ rows) \cup {row}, 2)

\* export async function POST (posts/[postId]/repost)
POST_repost(header, originalPostId, vendors, table, uuids, t, dbError) ==
    LET auth == getAuthenticatedVendor(header, vendors)
    IN  IF ~auth.ok THEN CatchPostId(auth.error, auth.steps, table)
        ELSE LET steps == auth.steps \o <<"posts.select">>
                 rows  == SelectOwnPost(table, originalPostId, auth.vendor)
             IN  IF rows = {} THEN Reply(404, MsgRepostNotFound, <<>>, steps, table, 0)
                 ELSE LET row == repostedPost(CHOOSE p \in rows : TRUE, uuids + 1, uuids + 2, t)
                      IN  IF dbError \/ ~UniqueIds(table \cup {row})
                          THEN CatchPostId(MsgRepostFailed, steps \o <<"posts.insert">>, table)
                          ELSE Reply(200, "Post reposted successfully!",
                                     <<[postId |-> row.id, editToken |-> row.edit_token]>>,
                                     steps \o <<"posts.insert">>, table \cup {row}, 2)

\* ------------------------------------------------------ GET /categories
\* Position of a category name in ascending order.
NameRank(name) == CASE name = "Books" -> 1 [] name = "Vehicles" -> 2 [] OTHER -> 3

RECURSIVE OrderByNameAsc(_)
OrderByNameAsc(rows) ==
    IF rows = {} THEN <<>>
    ELSE LET r == CHOOSE x \in rows : \A y \in rows : NameRank(x.name) <= NameRank(y.name)
         IN  <<r>> \o OrderByNameAsc(rows \ {r})

\* Mutant: the filter on the allowed ids is missing.
SelectCategories_All(allowedCategoryIds) == Categories

\* .in('id', allowedCategoryIds)
SelectCategories(allowedCategoryIds) == {c \in Categories : c.id \in allowedCategoryIds}

MsgNoCategories == "No categories assigned to this vendor."
MsgCategoriesFailed == "Failed to fetch categories."

GET_categories(header, vendors, table, dbError) ==
    LET auth == getAuthenticatedVendor(header, vendors)
    IN  IF ~auth.ok THEN CatchPlain(auth.error, auth.steps, table)
        ELSE IF auth.vendor.allowed_categories = {}
        THEN Reply(200, MsgNoCategories, <<>>, auth.steps, table, 0)
        ELSE LET steps == auth.steps \o <<"categories.select">>
             IN  IF dbError THEN CatchPlain(MsgCategoriesFailed, steps, table)
                 ELSE Reply(200, "", OrderByNameAsc(SelectCategories(auth.vendor.allowed_categories)),
                            steps, table, 0)

\* ----------------------------------------------------- GET /config/{id}
\* config table (id, school_name)
ConfigTable == {[id |-> "cfg1", school_name |-> "School One"], [id |-> "cfg2", school_name |-> "School Two"]}

MsgConfigNotFound == "Configuration not found or failed to fetch."

GET_config(header, configId, vendors, table) ==
    LET auth == getAuthenticatedVendor(header, vendors)
    IN  IF ~auth.ok THEN CatchPlain(auth.error, auth.steps, table)
        ELSE LET steps == auth.steps \o <<"config.select">>
                 rows  == {c \in ConfigTable : c.id = configId}
             IN  IF rows = {} THEN Reply(404, MsgConfigNotFound, <<>>, steps, table, 0)
                 ELSE Reply(200, "", <<CHOOSE c \in rows : TRUE>>, steps, table, 0)

\* --------------------------------------------------- POST /upload-image
\* What the upload-post-image function may answer.
UploadOutcomes ==
    {[ok |-> TRUE, status |-> 200], [ok |-> FALSE, status |-> 403], [ok |-> FALSE, status |-> 413]}

\* The upload-post-image function when it succeeds: it stores the image and
\* appends its URL to the post the edit token belongs to.
EdgeUploadTarget(table, form) ==
    {p \in table : p.id = form.postId /\ p.edit_token = form.token /\ p.config_id = form.config_id}

EdgeUploadImage(table, form, url) ==
    (table \ EdgeUploadTarget(table, form)) \cup
        {[p EXCEPT !.photo_urls = Append(@, url), !.has_photo = TRUE] : p \in EdgeUploadTarget(table, form)}

MsgUploadMissing == "Missing required fields for image upload: token, postId, config_id, image."
MsgEdgeUpload == "Failed to upload image via Edge Function."

\* Mutant: the form goes to the function without a look at its fields.
POST_upload_image_Unchecked(header, form, vendors, table, imgs, url, outcome) ==
    LET auth == getAuthenticatedVendor(header, vendors)
    IN  IF ~auth.ok THEN WithImages(CatchPlain(auth.error, auth.steps, table), imgs)
        ELSE LET steps == auth.steps \o <<"fn.upload-post-image">>
             IN  IF ~outcome.ok
                 THEN EdgeReply(outcome.status, MsgEdgeUpload, <<>>, steps, table, imgs)
                 ELSE EdgeReply(200, "", <<[url |-> url]>>, steps,
                                EdgeUploadImage(table, form, url), imgs \cup {url})

\* form: [token, postId, config_id, image]; 0, "" and FALSE stand for an absent
\* field. url: the URL the function gives the stored image.
POST_upload_image(header, form, vendors, table, imgs, url, outcome) ==
    LET auth == getAuthenticatedVendor(header, vendors)
    IN  IF ~auth.ok THEN WithImages(CatchPlain(auth.error, auth.steps, table), imgs)
        ELSE IF form.token = 0 \/ form.postId = 0 \/ form.config_id = "" \/ ~form.image
        THEN EdgeReply(400, MsgUploadMissing, <<>>, auth.steps, table, imgs)
        ELSE LET steps == auth.steps \o <<"fn.upload-post-image">>
             IN  IF ~outcome.ok
                 THEN EdgeReply(outcome.status, MsgEdgeUpload, <<>>, steps, table, imgs)
                 ELSE EdgeReply(200, "", <<[url |-> url]>>, steps,
                                EdgeUploadImage(table, form, url), imgs \cup {url})

\* ---------------------------------------------------------- POST /token
\* The users of the authentication service (auth.users) and their passwords.
AuthUsers ==
    { [id |-> "uA", email |-> "a@x", password |-> "pwA"],
      [id |-> TEST_USER_AUTH_ID_FOR_BACKDOOR, email |-> "testcars@example.com", password |-> "pwT"],
      [id |-> "uC", email |-> "c@x", password |-> "pwC"],
      [id |-> "uD", email |-> "d@x", password |-> "pwD"],
      [id |-> "uE", email |-> "e@x", password |-> "pwE"] }

\* The access token of a session opened for a user: a signed, unexpired JWT
\* whose sub is the user's id.
AccessTokenOf(userId) ==
    CHOOSE t \in Tokens :
        TokenClaims[t] = [jwt |-> TRUE, sig |-> TRUE, expired |-> FALSE, sub |-> userId]

MsgBadCredentials == "Invalid login credentials"

\* supabase.auth.signInWithPassword({email, password})
signInWithPassword(email, password) ==
    LET hit == {u \in AuthUsers : u.email = email /\ u.password = password}
    IN  IF hit = {}
        THEN [error |-> TRUE, user |-> Null, email |-> Null, access_token |-> Null]
        ELSE LET u == CHOOSE u \in hit : TRUE
             IN  [error |-> FALSE, user |-> u.id, email |-> u.email,
                  access_token |-> AccessTokenOf(u.id)]

\* What the token route returns: the response, the steps taken and the user
\* left signed in on the route's storage client.
TokenReply(status, detail, body, steps, sess) ==
    [status |-> status, detail |-> detail, body |-> body, steps |-> steps, session |-> sess]

MsgLoginRequired == "Email and password are required."
MsgNotLinked == "Your account is not linked to an approved vendor profile. Access denied."
MsgVendorInactive == "Your vendor account is not active. Please contact support."

\* Mutant: the status of the linked vendor is not looked at.
POST_token_StatusIgnored(body, vendors, sess, dbError) ==
    IF body.email = "" \/ body.password = ""
    THEN TokenReply(400, MsgLoginRequired, <<>>, <<>>, sess)
    ELSE LET data == signInWithPassword(body.email, body.password)
         IN  IF data.error
             THEN TokenReply(401, MsgBadCredentials, <<>>, <<"auth.signIn">>, sess)
             ELSE LET res == VendorLookup(vendors, data.user)
                  IN  IF dbError \/ res.error
                      THEN TokenReply(403, MsgNotLinked, <<>>,
                                      <<"auth.signIn", "lookup", "auth.signOut">>, Null)
                      ELSE TokenReply(200, "",
                                      <<[access_token |-> data.access_token, token_type |-> "bearer",
                                         user_email |-> data.email, vendor_id |-> res.data.id]>>,
                                      <<"auth.signIn", "lookup">>, data.user)

\* export async function POST (token); body: [email, password], "" for a
\* field that is absent; dbError: the approved_vendors query fails.
POST_token(body, vendors, sess, dbError) ==
    IF body.email = "" \/ body.password = ""
    THEN TokenReply(400, MsgLoginRequired, <<>>, <<>>, sess)
    ELSE LET data == signInWithPassword(body.email, body.password)
         IN  IF data.error
             THEN TokenReply(401, MsgBadCredentials, <<>>, <<"auth.signIn">>, sess)
             ELSE LET res == VendorLookup(vendors, data.user)
                  IN  IF dbError \/ res.error
                      THEN TokenReply(403, MsgNotLinked, <<>>,
                                      <<"auth.signIn", "lookup", "auth.signOut">>, Null)
                      ELSE IF res.data.status # "active"
                      THEN TokenReply(403, MsgVendorInactive, <<>>,
                                      <<"auth.signIn", "lookup", "auth.signOut">>, Null)
                      ELSE TokenReply(200, "",
                                      <<[access_token |-> data.access_token, token_type |-> "bearer",
                                         user_email |-> data.email, vendor_id |-> res.data.id]>>,
                                      <<"auth.signIn", "lookup">>, data.user)

\* ------------------------------------------------------- request inputs
\* Headers of the requests the post-lifecycle specification sends: vendor A's
\* token, the token of the test user (vendor B) and a token no vendor is
\* linked to.
LifecycleHeaders == {Bearer("jwt-uA"), Bearer("jwt-uT"), Bearer("jwt-uD")}

\* Drafts a client may send as post_data: a complete one, one that also sets
\* fields the server owns, one without category, one without title and price.
DraftDesk == [title |-> "Desk", price |-> 50, category_id |-> "c1"]

DraftForged ==
    [title |-> "Desk", price |-> 50, category_id |-> "c2", has_photo |-> TRUE,
     vendor_id |-> "vB", config_id |-> "cfg2", status |-> "pending",
     photo_urls |-> <<7>>, is_vendor_post |-> FALSE, published_at |-> 5, expires_at |-> 6]

DraftNoCategory == [title |-> "Desk", price |-> 50]

DraftNoTitle == [category_id |-> "c1"]

DraftNoPrice == [title |-> "Desk", category_id |-> "c1"]

NoPostData == [has_post_data |-> FALSE, post_data |-> [title |-> ""]]

PostData(d) == [has_post_data |-> TRUE, post_data |-> d]

\* Field sets a client may send to PATCH.
NoUpdates == [has_updates |-> FALSE, updates |-> [title |-> ""]]

Updates(u) == [has_updates |-> TRUE, updates |-> u]

\* Post ids a request may name: those stored, and one that never exists.
PostIds == {p.id : p \in posts} \cup {0}

\* Upload forms: the right fields for a stored post, and forms lacking a field.
UploadForms ==
    {[token |-> p.edit_token, postId |-> p.id, config_id |-> p.config_id, image |-> TRUE] : p \in posts}
        \cup { [token |-> 0, postId |-> 1, config_id |-> "cfg1", image |-> TRUE],
               [token |-> 2, postId |-> 0, config_id |-> "cfg1", image |-> TRUE],
               [token |-> 2, postId |-> 1, config_id |-> "", image |-> TRUE],
               [token |-> 2, postId |-> 1, config_id |-> "cfg1", image |-> FALSE] }

\* The browser: the page shown and where its running async function awaits
\* (pc, "idle" when none runs); the three localStorage keys of lib/auth; the
\* page's component state (vendorProfile's config_id, the post being edited,
\* the files still to upload, the messages shown) and a log of the image
\* uploads of the last submit.
NoMessage == [msg |-> "", file |-> 0]

Closed ==
    [page |-> "closed", pc |-> "idle", token |-> Null, vendor_id |-> Null, email |-> Null,
     profile |-> Null, postId |-> 0, editToken |-> 0, existing |-> <<>>, leaving |-> FALSE,
     queue |-> <<>>, uploads |-> <<>>, formError |-> NoMessage, formSuccess |-> ""]

\* ------------------------------------------------------------- actions
\* Requests are served one after the other: an action serves one request and
\* leaves it, with its response, in last; Respond hands the response back.
\* H is the set of Authorization headers the request may carry, the other
\* parameters the sets its inputs come from.
Idle ==
    [op |-> "none", header |-> NoHeader, req |-> <<>>, status |-> 0, detail |-> "",
     body |-> <<>>, steps |-> <<>>]

Served(op, header, req, r) ==
    [op |-> op, header |-> header, req |-> req, status |-> r.status, detail |-> r.detail,
     body |-> r.body, steps |-> r.steps]

Init ==
    /\ approved_vendors = InitialVendors
    /\ posts = {}
    /\ now = 0
    /\ uuidCount = 0
    /\ writes = 0
    /\ images = {}
    /\ deleted = {}
    /\ last = Idle
    /\ session = Null
    /\ inflight = {}
    /\ browser = Closed

\* The write count after a request that leaves the given tables.
Written(table, imgs) == IF table # posts \/ imgs # images THEN writes + 1 ELSE writes

Respond ==
    /\ last # Idle
    /\ last' = Idle
    /\ UNCHANGED <<session, inflight, browser, approved_vendors, posts, now, uuidCount, writes, images, deleted>>

Tick ==
    /\ last = Idle
    /\ now < MaxTime
    /\ now' = now + 1
    /\ UNCHANGED <<session, inflight, browser, approved_vendors, posts, uuidCount, writes, images, deleted, last>>

Me(H) ==
    /\ last = Idle
    /\ \E h \in H :
        LET r == GET_me(h, approved_vendors, posts)
        IN  /\ last' = Served("GET /me", h, <<>>, r)
            /\ posts' = r.posts
            /\ UNCHANGED <<session, inflight, browser, approved_vendors, now, uuidCount, writes, images, deleted>>

GetCategories(H) ==
    /\ last = Idle
    /\ \E h \in H, dbError \in BOOLEAN :
        LET r == GET_categories(h, approved_vendors, posts, dbError)
        IN  /\ last' = Served("GET /categories", h, <<>>, r)
            /\ posts' = r.posts
            /\ UNCHANGED <<session, inflight, browser, approved_vendors, now, uuidCount, writes, images, deleted>>

GetConfig(H) ==
    /\ last = Idle
    /\ \E h \in H, configId \in {"cfg1", "cfg9"} :
        LET r == GET_config(h, configId, approved_vendors, posts)
        IN  /\ last' = Served("GET /config/{id}", h, <<configId>>, r)
            /\ posts' = r.posts
            /\ UNCHANGED <<session, inflight, browser, approved_vendors, now, uuidCount, writes, images, deleted>>

List(H) ==
    /\ last = Idle
    /\ \E h \in H, tie \in {"up", "down"}, dbError \in BOOLEAN :
        LET r == GET_posts(h, approved_vendors, posts, tie, dbError)
        IN  /\ last' = Served("GET /posts", h, <<>>, r)
            /\ posts' = r.posts
            /\ UNCHANGED <<session, inflight, browser, approved_vendors, now, uuidCount, writes, images, deleted>>

GetOne(H) ==
    /\ last = Idle
    /\ \E h \in H, postId \in PostIds :
        LET r == GET_post(h, postId, approved_vendors, posts)
        IN  /\ last' = Served("GET /posts/{id}", h, <<postId>>, r)
            /\ posts' = r.posts
            /\ UNCHANGED <<session, inflight, browser, approved_vendors, now, uuidCount, writes, images, deleted>>

Create(H, B) ==
    /\ last = Idle
    /\ writes < MaxWrites
    /\ \E h \in H, body \in B, dbError \in BOOLEAN :
        LET r == POST_posts(h, body, approved_vendors, posts, uuidCount, now, dbError)
        IN  /\ last' = Served("POST /posts", h, <<body>>, r)
            /\ posts' = r.posts
            /\ uuidCount' = uuidCount + r.uuids
            /\ writes' = Written(r.posts, images)
            /\ UNCHANGED <<session, inflight, browser, approved_vendors, now, images, deleted>>

Update(H, B) ==
    /\ last = Idle
    /\ writes < MaxWrites
    /\ \E h \in H, postId \in PostIds, body \in B, dbError \in BOOLEAN :
        LET r == PATCH_post(h, postId, body, approved_vendors, posts, now, dbError)
        IN  /\ last' = Served("PATCH /posts/{id}", h, <<postId, body>>, r)
            /\ posts' = r.posts
            /\ writes' = Written(r.posts, images)
            /\ UNCHANGED <<session, inflight, browser, approved_vendors, now, uuidCount, images, deleted>>

Delete(H) ==
    /\ last = Idle
    /\ writes < MaxWrites
    /\ \E h \in H, postId \in PostIds, outcome \in DeleteOutcomes :
        LET r == DELETE_post(h, postId, approved_vendors, posts, images, outcome)
        IN  /\ last' = Served("DELETE /posts/{id}", h, <<postId, outcome>>, r)
            /\ posts' = r.posts
            /\ images' = r.images
            /\ deleted' = IF r.status = 200 THEN deleted \cup {postId} ELSE deleted
            /\ writes' = Written(r.posts, r.images)
            /\ UNCHANGED <<session, inflight, browser, approved_vendors, now, uuidCount>>

Repost(H) ==
    /\ last = Idle
    /\ writes < MaxWrites
    /\ \E h \in H, postId \in PostIds, dbError \in BOOLEAN :
        LET r == POST_repost(h, postId, approved_vendors, posts, uuidCount, now, dbError)
        IN  /\ last' = Served("POST /posts/{id}/repost", h, <<postId>>, r)
            /\ posts' = r.posts
            /\ uuidCount' = uuidCount + r.uuids
            /\ writes' = Written(r.posts, images)
            /\ UNCHANGED <<session, inflight, browser, approved_vendors, now, images, deleted>>

\* A stored image's URL: a number no earlier image got.
UploadImage(H) ==
    /\ last = Idle
    /\ writes < MaxWrites
    /\ \E h \in H, form \in UploadForms, outcome \in UploadOutcomes :
        /\ outcome.ok => EdgeUploadTarget(posts, form) # {}
        /\ LET r == POST_upload_image(h, form, approved_vendors, posts, images,
                                      101 + writes, outcome)
           IN  /\ last' = Served("POST /upload-image", h, <<form, outcome>>, r)
               /\ posts' = r.posts
               /\ images' = r.images
               /\ writes' = Written(r.posts, r.images)
               /\ UNCHANGED <<session, inflight, browser, approved_vendors, now, uuidCount, deleted>>

\* The approved_vendors table is maintained out-of-band: an administrator
\* changes the categories assigned to a vendor of V.
VendorsChanged(V) ==
    /\ last = Idle
    /\ \E v \in approved_vendors, cats \in SUBSET {c.id : c \in Categories} :
        /\ v.id \in V
        /\ cats # v.allowed_categories
        /\ approved_vendors' = (approved_vendors \ {v}) \cup {[v EXCEPT !.allowed_categories = cats]}
    /\ UNCHANGED <<session, inflight, browser, posts, now, uuidCount, writes, images, deleted, last>>

\* The approved_vendors table is maintained out-of-band: an administrator
\* suspends or reinstates a vendor of V.
VendorStatusChanged(V) ==
    /\ last = Idle
    /\ \E v \in approved_vendors :
        /\ v.id \in V
        /\ approved_vendors' = (approved_vendors \ {v}) \cup
               {[v EXCEPT !.status = IF v.status = "active" THEN "inactive" ELSE "active"]}
    /\ UNCHANGED <<session, inflight, browser, posts, now, uuidCount, writes, images, deleted, last>>

Login(C) ==
    /\ last = Idle
    /\ \E body \in C, dbError \in BOOLEAN :
        LET r == POST_token(body, approved_vendors, session, dbError)
        IN  /\ last' = Served("POST /token", NoHeader, <<body, dbError>>, r)
            /\ session' = r.session
    /\ UNCHANGED <<inflight, browser, approved_vendors, posts, now, uuidCount, writes, images, deleted>>

\* ------------------------------------- PATCH requests served side by side
\* The handler awaits the guard, the body and the storage write, so two
\* requests may be in service at once. A request in service: the slot it
\* occupies, what it asked, the field-set it is going to write (updated_at
\* included), the writes still to be done, its status (0 until it is
\* answered) and the slots that were waiting to write when it arrived.
Slots == {1, 2}

\* Mutant: the storage writes the fields of an update one by one.
PatchWrites_PerField(updates) == {{f} : f \in DOMAIN updates}

\* .update(updates).eq('id', postId).eq('vendor_id', vendor.id) is one
\* statement: the storage writes all fields of the field-set at once.
PatchWrites(updates) == {DOMAIN updates}

Waiting == {r \in inflight : r.todo # {}}

\* The guard and the body: the request is answered at once when the guard or
\* the body fails, and waits to write otherwise.
PatchBegin(H, B) ==
    /\ last = Idle
    /\ \E slot \in Slots, h \in H, postId \in PostIds, body \in B :
        /\ \A r \in inflight : r.slot # slot
        /\ LET auth == getAuthenticatedVendor(h, approved_vendors)
               updates == [f \in DOMAIN body.updates \cup {"updated_at"} |->
                              IF f = "updated_at" THEN now ELSE body.updates[f]]
               failed == PATCH_post(h, postId, body, approved_vendors, posts, now, FALSE)
               ok == auth.ok /\ body.has_updates
           IN  inflight' = inflight \cup
                  {[slot |-> slot, header |-> h, postId |-> postId, vendor |-> auth.vendor,
                    updates |-> IF ok THEN updates ELSE [updated_at |-> now],
                    todo |-> IF ok THEN PatchWrites(updates) ELSE {},
                    status |-> IF ok THEN 0 ELSE failed.status,
                    rivals |-> {r.slot : r \in Waiting}]}
    /\ UNCHANGED <<session, browser, approved_vendors, posts, now, uuidCount, writes, images,
                   deleted, last>>

\* One write of a waiting request reaches the storage; the request is
\* answered 200 after its last write, 500 when the storage refuses a write.
PatchWrite ==
    /\ \E r \in Waiting : \E w \in r.todo :
        LET after == UpdateRows(posts, r.postId, r.vendor, [f \in w |-> r.updates[f]])
            refused == ~UniqueIds(after) \/ Cardinality(after) # Cardinality(posts)
            left == IF refused THEN {} ELSE r.todo \ {w}
        IN  /\ posts' = IF refused THEN posts ELSE after
            /\ inflight' = (inflight \ {r}) \cup
                   {[r EXCEPT !.todo = left,
                              !.status = IF refused THEN 500 ELSE IF left = {} THEN 200 ELSE 0]}
    /\ UNCHANGED <<session, browser, approved_vendors, now, uuidCount, writes, images, deleted, last>>

\* ----------------------------------------------- the dashboard pages
\* Files a vendor selects for one submit, at most.
MaxPhotos == 2

\* saveAuthData(accessToken, vendorId, vendorEmail)
saveAuthData(b, accessToken, vendorId, vendorEmail) ==
    [b EXCEPT !.token = accessToken, !.vendor_id = vendorId, !.email = vendorEmail]

\* clearAuthData()
clearAuthData(b) == [b EXCEPT !.token = Null, !.vendor_id = Null, !.email = Null]

\* isAuthenticated()
isAuthenticated(b) == b.token # Null

\* 'Authorization': `Bearer ${accessToken}`
AccessHeader == Bearer(browser.token)

\* err.message.includes('token missing') || err.message.includes('Invalid or expired'),
\* over the messages the handlers and the pages produce.
IncludesSessionWords(msg) == msg \in {MsgMissing, MsgInvalid}

\* The catch block of a page function: the message is shown, and the stored
\* session is cleared and the login page opened when the message has the
\* words of a credential failure.
PageCatch(b, msg) ==
    LET shown == [b EXCEPT !.formError = [msg |-> msg, file |-> 0], !.pc = "idle"]
    IN  IF IncludesSessionWords(msg)
        THEN [clearAuthData(shown) EXCEPT !.page = "login"]
        ELSE shown

\* A page is mounted: its useEffect sends a visitor without stored token to
\* the login page and otherwise starts the page's first fetch.
Mounted(b, page, postId) ==
    IF ~isAuthenticated(b)
    THEN [Closed EXCEPT !.page = "login"]
    ELSE [Closed EXCEPT !.page = page, !.token = b.token, !.vendor_id = b.vendor_id,
                        !.email = b.email, !.postId = postId,
                        !.pc = CASE page = "dashboard" -> "me"
                                 [] page = "new-post" -> "categories"
                                 [] OTHER -> "get"]

\* The vendor opens a page while no function of the current page is running.
OpenPage ==
    /\ browser.pc \in {"idle", "form"}
    /\ browser.page # "login"
    /\ \E page \in {"dashboard", "new-post", "edit-post"}, postId \in PostIds :
        /\ page # "edit-post" => postId = 0
        /\ browser' = Mounted(browser, page, postId)
    /\ last' = Idle
    /\ UNCHANGED <<session, inflight, approved_vendors, posts, now, uuidCount, writes, images, deleted>>

\* The exp claim of the stored token passes.
TokenExpires ==
    /\ browser.token = "jwt-uA"
    /\ browser' = [browser EXCEPT !.token = "jwt-uA-expired"]
    /\ UNCHANGED <<session, inflight, approved_vendors, posts, now, uuidCount, writes, images,
                   deleted, last>>

\* fetchVendorData: GET /me
DashMe ==
    /\ browser.page = "dashboard" /\ browser.pc = "me"
    /\ LET r == GET_me(AccessHeader, approved_vendors, posts)
       IN  /\ last' = Served("GET /me", AccessHeader, <<>>, r)
           /\ browser' = IF r.status = 200
                         THEN [browser EXCEPT !.profile = r.body[1].config_id, !.pc = "config"]
                         ELSE PageCatch(browser, r.detail)
    /\ UNCHANGED <<session, inflight, approved_vendors, posts, now, uuidCount, writes, images, deleted>>

\* fetchVendorData: GET /config/{id}; a failure is only shown in place of the
\* marketplace name.
DashConfig ==
    /\ browser.page = "dashboard" /\ browser.pc = "config"
    /\ LET r == GET_config(AccessHeader, browser.profile, approved_vendors, posts)
       IN  /\ last' = Served("GET /config/{id}", AccessHeader, <<browser.profile>>, r)
           /\ browser' = [browser EXCEPT !.pc = "posts"]
    /\ UNCHANGED <<session, inflight, approved_vendors, posts, now, uuidCount, writes, images, deleted>>

\* fetchVendorData: GET /posts
DashPosts ==
    /\ browser.page = "dashboard" /\ browser.pc = "posts"
    /\ \E dbError \in BOOLEAN :
        LET r == GET_posts(AccessHeader, approved_vendors, posts, "up", dbError)
        IN  /\ last' = Served("GET /posts", AccessHeader, <<>>, r)
            /\ browser' = IF r.status = 200 THEN [browser EXCEPT !.pc = "idle"]
                          ELSE PageCatch(browser, r.detail)
    /\ UNCHANGED <<session, inflight, approved_vendors, posts, now, uuidCount, writes, images, deleted>>

\* handleDeletePost
DashDelete ==
    /\ browser.page = "dashboard" /\ browser.pc = "idle"
    /\ writes < MaxWrites
    /\ \E p \in posts, outcome \in DeleteOutcomes :
        LET r == DELETE_post(AccessHeader, p.id, approved_vendors, posts, images, outcome)
        IN  /\ last' = Served("DELETE /posts/{id}", AccessHeader, <<p.id, outcome>>, r)
            /\ posts' = r.posts
            /\ images' = r.images
            /\ deleted' = IF r.status = 200 THEN deleted \cup {p.id} ELSE deleted
            /\ writes' = Written(r.posts, r.images)
            /\ browser' = IF r.status = 200 THEN browser ELSE PageCatch(browser, r.detail)
    /\ UNCHANGED <<session, inflight, approved_vendors, now, uuidCount>>

\* handleRepostPost; after a repost the dashboard data is fetched again.
DashRepost ==
    /\ browser.page = "dashboard" /\ browser.pc = "idle"
    /\ writes < MaxWrites
    /\ \E p \in posts, dbError \in BOOLEAN :
        LET r == POST_repost(AccessHeader, p.id, approved_vendors, posts, uuidCount, now, dbError)
        IN  /\ last' = Served("POST /posts/{id}/repost", AccessHeader, <<p.id>>, r)
            /\ posts' = r.posts
            /\ uuidCount' = uuidCount + r.uuids
            /\ writes' = Written(r.posts, images)
            /\ browser' = IF r.status = 200 THEN [browser EXCEPT !.pc = "me"]
                          ELSE PageCatch(browser, r.detail)
    /\ UNCHANGED <<session, inflight, approved_vendors, now, images, deleted>>

\* fetchCategories (new-post); fetchVendorProfileForConfigId runs after it,
\* and returns at once when no token is stored.
NewCategories ==
    /\ browser.page = "new-post" /\ browser.pc = "categories"
    /\ \E dbError \in BOOLEAN :
        LET r == GET_categories(AccessHeader, approved_vendors, posts, dbError)
            caught == PageCatch(browser, r.detail)
        IN  /\ last' = Served("GET /categories", AccessHeader, <<>>, r)
            /\ browser' = IF r.status = 200 THEN [browser EXCEPT !.pc = "me"]
                          ELSE IF isAuthenticated(caught) THEN [caught EXCEPT !.pc = "me"]
                          ELSE caught
    /\ UNCHANGED <<session, inflight, approved_vendors, posts, now, uuidCount, writes, images, deleted>>

\* fetchVendorProfileForConfigId: a failure is only logged to the console.
NewMe ==
    /\ browser.page = "new-post" /\ browser.pc = "me"
    /\ LET r == GET_me(AccessHeader, approved_vendors, posts)
       IN  /\ last' = Served("GET /me", AccessHeader, <<>>, r)
           /\ browser' = IF r.status = 200
                         THEN [browser EXCEPT !.profile = r.body[1].config_id, !.pc = "form"]
                         ELSE [browser EXCEPT !.pc = "form"]
    /\ UNCHANGED <<session, inflight, approved_vendors, posts, now, uuidCount, writes, images, deleted>>

\* The post_data the new-post form sends for n selected files.
NewPostData(n) ==
    [title |-> "Desk", description |-> "", price |-> 50, category_id |-> "c1",
     subcategory_id |-> Null, email |-> browser.email, status |-> "pending",
     is_featured |-> FALSE, has_photo |-> n > 0, is_vendor_post |-> TRUE,
     published_at |-> now, expires_at |-> now + ThirtyDays]

MsgProfileNotLoaded == "Vendor profile or configuration ID not loaded. Please try again or refresh."
MsgCreated == "Post created successfully!"
MsgCreatedAllUploaded == "Post created and all photos uploaded successfully!"
MsgUpdatedAllUploaded == "Post updated and all new photos uploaded successfully!"
MsgUploadFailed == "failed to upload photo"
MsgFetchFailed == "Failed to fetch"

\* handleSubmit (new-post) up to the response to POST /posts, with n files
\* selected.
NewSubmit ==
    /\ browser.page = "new-post" /\ browser.pc = "form"
    /\ writes < MaxWrites
    /\ \E n \in 0..MaxPhotos, dbError \in BOOLEAN :
        IF browser.profile = Null
        THEN /\ browser' = [browser EXCEPT !.formError = [msg |-> MsgProfileNotLoaded, file |-> 0],
                                           !.formSuccess = ""]
             /\ last' = Idle
             /\ UNCHANGED <<posts, uuidCount, writes>>
        ELSE LET body == PostData(NewPostData(n))
                 r == POST_posts(AccessHeader, body, approved_vendors, posts, uuidCount, now, dbError)
                 sent == [browser EXCEPT !.formError = NoMessage, !.formSuccess = "", !.uploads = <<>>]
             IN  /\ last' = Served("POST /posts", AccessHeader, <<body>>, r)
                 /\ posts' = r.posts
                 /\ uuidCount' = uuidCount + r.uuids
                 /\ writes' = Written(r.posts, images)
                 /\ browser' =
                       IF r.status # 200 THEN [PageCatch(sent, r.detail) EXCEPT !.pc = "form"]
                       ELSE IF n = 0
                       THEN [Mounted(sent, "dashboard", 0) EXCEPT !.formSuccess = MsgCreated]
                       ELSE [sent EXCEPT !.pc = "upload", !.postId = r.body[1].postId,
                                         !.editToken = r.body[1].editToken,
                                         !.queue = [i \in 1..n |-> i]]
    /\ UNCHANGED <<session, inflight, approved_vendors, now, images, deleted>>

\* One entry of the upload log: the file, where the browser sent it and with
\* which Authorization header, whether browser code read the service key,
\* whether the guard had accepted the request when the function was reached,
\* and the response status (0: the fetch itself failed).
Uploaded(file, to, auth, keyRead, reached, guarded, status) ==
    [file |-> file, to |-> to, auth |-> auth, keyRead |-> keyRead, reached |-> reached,
     guarded |-> guarded, status |-> status]

\* The loop body's handling of one upload response, and what follows the
\* loop after the last file.
AfterUpload(b, entry, doneMsg) ==
    LET logged == [b EXCEPT !.uploads = Append(@, entry), !.queue = Tail(@)]
        told   == IF entry.status = 200 THEN logged
                  ELSE [logged EXCEPT !.formError = [msg |-> MsgUploadFailed, file |-> entry.file]]
    IN  IF told.queue # <<>> THEN told
        ELSE [told EXCEPT !.formSuccess = doneMsg, !.pc = "uploaded"]

\* fetch() itself fails: the exception leaves the loop and is caught by the
\* catch block of handleSubmit.
UploadThrows(b) ==
    [PageCatch([b EXCEPT !.uploads = Append(@, Uploaded(Head(b.queue), "none", NoHeader, FALSE,
                                                        FALSE, FALSE, 0))],
               MsgFetchFailed) EXCEPT !.pc = "form"]

\* handleSubmit (new-post): one pass of the photo loop, through the proxy.
NewUpload ==
    /\ browser.page = "new-post" /\ browser.pc = "upload" /\ browser.queue # <<>>
    /\ writes < MaxWrites
    /\ \/ /\ browser' = UploadThrows(browser)
          /\ last' = Idle
          /\ UNCHANGED <<posts, images, writes>>
       \/ \E outcome \in UploadOutcomes :
            LET form == [token |-> browser.editToken, postId |-> browser.postId,
                         config_id |-> browser.profile, image |-> TRUE]
                r == POST_upload_image(AccessHeader, form, approved_vendors, posts, images,
                                       101 + writes, outcome)
                entry == Uploaded(Head(browser.queue), "/api/vendor/upload-image", AccessHeader,
                                  FALSE, "fn.upload-post-image" \in Range(r.steps),
                                  getAuthenticatedVendor(AccessHeader, approved_vendors).ok,
                                  r.status)
                after == AfterUpload(browser, entry, MsgCreatedAllUploaded)
            IN  /\ outcome.ok => EdgeUploadTarget(posts, form) # {}
                /\ last' = Served("POST /upload-image", AccessHeader, <<form, outcome>>, r)
                /\ posts' = r.posts
                /\ images' = r.images
                /\ writes' = Written(r.posts, r.images)
                /\ browser' = IF after.pc = "uploaded"
                              THEN [Mounted(after, "dashboard", 0) EXCEPT
                                        !.uploads = after.uploads, !.formError = after.formError,
                                        !.formSuccess = after.formSuccess]
                              ELSE after
    /\ UNCHANGED <<session, inflight, approved_vendors, now, uuidCount, deleted>>

\* fetchEditData: GET /posts/{id}. When it runs after the photo loop, the
\* dashboard is opened once it has returned.
Left(b) == IF b.leaving
           THEN [Mounted(b, "dashboard", 0) EXCEPT !.uploads = b.uploads, !.formError = b.formError,
                                                   !.formSuccess = b.formSuccess]
           ELSE b

EditGet ==
    /\ browser.page = "edit-post" /\ browser.pc = "get"
    /\ LET r == GET_post(AccessHeader, browser.postId, approved_vendors, posts)
       IN  /\ last' = Served("GET /posts/{id}", AccessHeader, <<browser.postId>>, r)
           /\ browser' = IF r.status = 200
                         THEN [browser EXCEPT !.editToken = r.body[1].edit_token,
                                              !.existing = r.body[1].photo_urls,
                                              !.pc = "categories"]
                         ELSE Left(PageCatch(browser, r.detail))
    /\ UNCHANGED <<session, inflight, approved_vendors, posts, now, uuidCount, writes, images, deleted>>

\* fetchEditData: GET /categories
EditCategories ==
    /\ browser.page = "edit-post" /\ browser.pc = "categories"
    /\ \E dbError \in BOOLEAN :
        LET r == GET_categories(AccessHeader, approved_vendors, posts, dbError)
        IN  /\ last' = Served("GET /categories", AccessHeader, <<>>, r)
            /\ browser' = IF r.status = 200 THEN [browser EXCEPT !.pc = "me"]
                          ELSE Left(PageCatch(browser, r.detail))
    /\ UNCHANGED <<session, inflight, approved_vendors, posts, now, uuidCount, writes, images, deleted>>

\* fetchEditData: GET /me; a failure is only logged to the console.
EditMe ==
    /\ browser.page = "edit-post" /\ browser.pc = "me"
    /\ LET r == GET_me(AccessHeader, approved_vendors, posts)
       IN  /\ last' = Served("GET /me", AccessHeader, <<>>, r)
           /\ browser' = Left(IF r.status = 200
                              THEN [browser EXCEPT !.profile = r.body[1].config_id, !.pc = "form"]
                              ELSE [browser EXCEPT !.pc = "form"])
    /\ UNCHANGED <<session, inflight, approved_vendors, posts, now, uuidCount, writes, images, deleted>>

\* The field-set the edit form sends for n new files.
EditUpdatesOf(n) ==
    [title |-> "Chair", description |-> "", price |-> 60,
     has_photo |-> (browser.existing # <<>> \/ n > 0), photo_urls |-> browser.existing]

MsgPostNotLoaded == "Post data not loaded. Cannot save changes."

\* handleSubmit (edit-post) up to the response to PATCH, with n new files.
EditSubmit ==
    /\ browser.page = "edit-post" /\ browser.pc = "form"
    /\ writes < MaxWrites
    /\ \E n \in 0..MaxPhotos, dbError \in BOOLEAN :
        IF browser.editToken = 0 \/ browser.profile = Null
        THEN /\ browser' = [browser EXCEPT
                               !.formError = [msg |-> IF browser.editToken = 0 THEN MsgPostNotLoaded
                                                      ELSE MsgProfileNotLoaded, file |-> 0],
                               !.formSuccess = ""]
             /\ last' = Idle
             /\ UNCHANGED <<posts, writes>>
        ELSE LET body == Updates(EditUpdatesOf(n))
                 r == PATCH_post(AccessHeader, browser.postId, body, approved_vendors, posts, now, dbError)
                 sent == [browser EXCEPT !.formError = NoMessage, !.formSuccess = "", !.uploads = <<>>]
             IN  /\ last' = Served("PATCH /posts/{id}", AccessHeader, <<browser.postId, body>>, r)
                 /\ posts' = r.posts
                 /\ writes' = Written(r.posts, images)
                 /\ browser' =
                       IF r.status # 200 THEN [PageCatch(sent, r.detail) EXCEPT !.pc = "form"]
                       ELSE IF n = 0 THEN Mounted(sent, "dashboard", 0)
                       ELSE [sent EXCEPT !.pc = "upload", !.queue = [i \in 1..n |-> i]]
    /\ UNCHANGED <<session, inflight, approved_vendors, now, uuidCount, images, deleted>>

\* `Bearer ${process.env.SUPABASE_SERVICE_KEY}` in the page's code: the key
\* when the build puts it into the browser bundle, the word undefined when
\* it does not.
BrowserServiceKeys == {"service-key", "undefined"}

\* What the upload-post-image function, or the gateway before it, may answer
\* to a request that comes straight from a browser.
DirectUploadOutcomes == UploadOutcomes \cup {[ok |-> FALSE, status |-> 401]}

\* handleSubmit (edit-post): one pass of the photo loop, straight to the
\* upload-post-image function; after the last file fetchEditData runs again.
EditUpload ==
    /\ browser.page = "edit-post" /\ browser.pc = "upload" /\ browser.queue # <<>>
    /\ writes < MaxWrites
    /\ last' = Idle
    /\ \/ /\ browser' = UploadThrows(browser)
          /\ UNCHANGED <<posts, images, writes>>
       \/ \E outcome \in DirectUploadOutcomes, key \in BrowserServiceKeys :
            LET form == [token |-> browser.editToken, postId |-> browser.postId,
                         config_id |-> browser.profile, image |-> TRUE]
                url == 101 + writes
                entry == Uploaded(Head(browser.queue), "functions/v1/upload-post-image",
                                  Bearer(key), TRUE, TRUE, FALSE, outcome.status)
                after == AfterUpload(browser, entry, MsgUpdatedAllUploaded)
            IN  /\ outcome.ok => EdgeUploadTarget(posts, form) # {}
                /\ posts' = IF outcome.ok THEN EdgeUploadImage(posts, form, url) ELSE posts
                /\ images' = IF outcome.ok THEN images \cup {url} ELSE images
                /\ writes' = IF outcome.ok THEN writes + 1 ELSE writes
                /\ browser' = IF after.pc = "uploaded"
                              THEN [after EXCEPT !.pc = "get", !.leaving = TRUE]
                              ELSE after
    /\ UNCHANGED <<session, inflight, approved_vendors, now, uuidCount, deleted>>

\* ------------------------------------------------------ specifications
\* The post lifecycle: requests of two active vendors and of a user without
\* vendor, over every post operation.
LifecycleDrafts == {PostData(DraftDesk), PostData(DraftForged), PostData(DraftNoCategory)}

LifecycleUpdates ==
    {Updates([title |-> "Chair"]), Updates([vendor_id |-> "vB"]),
     Updates([config_id |-> "cfg2"]), Updates([id |-> 99])}

Next ==
    \/ Respond
    \/ Tick
    \/ List(LifecycleHeaders)
    \/ GetOne(LifecycleHeaders)
    \/ Create(LifecycleHeaders, LifecycleDrafts)
    \/ Update(LifecycleHeaders, LifecycleUpdates)
    \/ Delete(LifecycleHeaders)
    \/ Repost(LifecycleHeaders)

Spec == Init /\ [][Next]_vars

\* The authorization guard: every protected endpoint under every kind of
\* Authorization header, over a small posts table.
GuardDrafts == {NoPostData, PostData(DraftDesk)}

GuardUpdates == {NoUpdates, Updates([title |-> "Chair"])}

NextGuard ==
    \/ Respond
    \/ Me(AuthHeaders)
    \/ GetCategories(AuthHeaders)
    \/ GetConfig(AuthHeaders)
    \/ List(AuthHeaders)
    \/ GetOne(AuthHeaders)
    \/ Create(AuthHeaders, GuardDrafts)
    \/ Update(AuthHeaders, GuardUpdates)
    \/ Delete(AuthHeaders)
    \/ Repost(AuthHeaders)
    \/ UploadImage(AuthHeaders)

SpecGuard == Init /\ [][NextGuard]_vars

\* Editing: the tables once vendor A has created one post, and then the
\* requests of the two active vendors of its tenant that create, change,
\* remove and repost posts, with bodies that name fields the server owns.
EditHeaders == {Bearer("jwt-uA"), Bearer("jwt-uT")}

ListedPost ==
    postToInsert(DraftDesk, CHOOSE v \in InitialVendors : v.id = "vA", 1, 2, 0)

InitEdit ==
    /\ approved_vendors = InitialVendors
    /\ posts = {ListedPost}
    /\ now = 0
    /\ uuidCount = 2
    /\ writes = 0
    /\ images = {}
    /\ deleted = {}
    /\ last = Idle
    /\ session = Null
    /\ inflight = {}
    /\ browser = Closed

EditDrafts == {PostData(DraftDesk), PostData(DraftNoTitle), PostData(DraftNoPrice)}

EditUpdates ==
    {Updates([category_id |-> "c2", subcategory_id |-> "s9"]),
     Updates([status |-> "pending", is_scraped |-> TRUE, scraped_url |-> "http://elsewhere"]),
     Updates([id |-> 1])}

NextEdit ==
    \/ Respond
    \/ Tick
    \/ GetOne(EditHeaders)
    \/ Create(EditHeaders, EditDrafts)
    \/ Update(EditHeaders, EditUpdates)
    \/ Delete(EditHeaders)
    \/ Repost(EditHeaders)

SpecEdit == InitEdit /\ [][NextEdit]_vars

\* Creating and reposting while an administrator changes the categories
\* assigned to the two active vendors of tenant cfg1.
AdminDrafts == {PostData(DraftDesk), PostData(DraftForged)}

NextAdmin ==
    \/ Respond
    \/ VendorsChanged({"vA", "vB"})
    \/ GetCategories(EditHeaders)
    \/ Create(EditHeaders, AdminDrafts)
    \/ Repost(EditHeaders)

SpecAdmin == Init /\ [][NextAdmin]_vars

\* Photos: vendor A's stored post gets images, is reposted and deleted.
PhotoDrafts == {PostData(DraftDesk)}

NextPhotos ==
    \/ Respond
    \/ GetOne(EditHeaders)
    \/ Create(EditHeaders, PhotoDrafts)
    \/ UploadImage(EditHeaders)
    \/ Repost(EditHeaders)
    \/ Delete(EditHeaders)

SpecPhotos == InitEdit /\ [][NextPhotos]_vars

\* Signing in: every user with the right and with a wrong password, an
\* unknown email and bodies lacking a field, while vendor A is suspended and
\* reinstated.
LoginBodies ==
    {[email |-> u.email, password |-> u.password] : u \in AuthUsers}
        \cup {[email |-> u.email, password |-> "wrong"] : u \in AuthUsers}
        \cup { [email |-> "nobody@x", password |-> "pwA"],
               [email |-> "", password |-> "pwA"],
               [email |-> "a@x", password |-> ""] }

NextLogin ==
    \/ Respond
    \/ VendorStatusChanged({"vA"})
    \/ Login(LoginBodies)
    \/ Me(EditHeaders)

SpecLogin == Init /\ [][NextLogin]_vars

\* Two PATCH requests of the active vendors of tenant cfg1 in service at the
\* same time, with field-sets that overlap.
RaceUpdates ==
    {Updates([title |-> "Chair", price |-> 60]), Updates([title |-> "Sofa", price |-> 70]),
     Updates([price |-> 80]), NoUpdates}

NextRace ==
    \/ Tick
    \/ PatchBegin(EditHeaders, RaceUpdates)
    \/ PatchWrite

SpecRace == InitEdit /\ [][NextRace]_vars

\* The dashboard in the browser of vendor A, who has signed in and whose
\* first post is stored.
InitDashboard ==
    /\ approved_vendors = InitialVendors
    /\ posts = {ListedPost}
    /\ now = 0
    /\ uuidCount = 2
    /\ writes = 0
    /\ images = {}
    /\ deleted = {}
    /\ last = Idle
    /\ session = Null
    /\ inflight = {}
    /\ browser = saveAuthData(Closed, "jwt-uA", "vA", "a@x")

NextDashboard ==
    \/ OpenPage
    \/ TokenExpires
    \/ DashMe
    \/ DashConfig
    \/ DashPosts
    \/ DashDelete
    \/ DashRepost
    \/ NewCategories
    \/ NewMe
    \/ NewSubmit
    \/ NewUpload
    \/ EditGet
    \/ EditCategories
    \/ EditMe
    \/ EditSubmit
    \/ EditUpload

SpecDashboard == InitDashboard /\ [][NextDashboard]_vars

\* =============================================================== claims
\* What the claims say about a request, stated without the handlers.

\* The bearer string passes signature and expiry verification.
PassesVerification(t) ==
    t \in Tokens /\ TokenClaims[t].jwt /\ TokenClaims[t].sig /\ ~TokenClaims[t].expired

\* A credential was supplied with the request.
Supplied(h) == HeaderToken(h) # ""

\* Vendors linked to the subject of a verified token.
LinkedVendors(h) == {v \in approved_vendors : v.user_id = TokenClaims[HeaderToken(h)].sub}

VerifiedUnlinked(h) == Supplied(h) /\ PassesVerification(HeaderToken(h)) /\ LinkedVendors(h) = {}

VerifiedInactive(h) ==
    /\ Supplied(h) /\ PassesVerification(HeaderToken(h))
    /\ LinkedVendors(h) # {} /\ \A v \in LinkedVendors(h) : v.status # "active"

\* The guard's answer to the last request's header.
LastAuth == getAuthenticatedVendor(last.header, approved_vendors)

Requested == last.op # "none"

StorageSteps ==
    {"posts.select", "posts.insert", "posts.update", "categories.select", "config.select",
     "fn.delete-post", "fn.upload-post-image"}

\* The answer the last request would get under header h, in the current tables.
Replay(h) ==
    CASE last.op = "GET /me" -> GET_me(h, approved_vendors, posts)
      [] last.op = "GET /categories" -> GET_categories(h, approved_vendors, posts, FALSE)
      [] last.op = "GET /config/{id}" -> GET_config(h, last.req[1], approved_vendors, posts)
      [] last.op = "GET /posts" -> GET_posts(h, approved_vendors, posts, "up", FALSE)
      [] last.op = "GET /posts/{id}" -> GET_post(h, last.req[1], approved_vendors, posts)
      [] last.op = "POST /posts" ->
            POST_posts(h, last.req[1], approved_vendors, posts, uuidCount, now, FALSE)
      [] last.op = "PATCH /posts/{id}" ->
            PATCH_post(h, last.req[1], last.req[2], approved_vendors, posts, now, FALSE)
      [] last.op = "DELETE /posts/{id}" ->
            DELETE_post(h, last.req[1], approved_vendors, posts, images,
                        [ok |-> TRUE, success |-> TRUE, status |-> 200])
      [] last.op = "POST /posts/{id}/repost" ->
            POST_repost(h, last.req[1], approved_vendors, posts, uuidCount, now, FALSE)
      [] OTHER ->
            POST_upload_image(h, last.req[1], approved_vendors, posts, images, 101,
                              [ok |-> TRUE, status |-> 200])

Public(r) == <<r.status, r.detail, r.body>>

\* C1: a supplied credential that does not pass signature and expiry
\* verification is always answered 401 with the invalid-credential message; it
\* never gets a vendor identity (no vendor lookup, no success).
C1_UnverifiedCredentialRejected ==
    (Requested /\ Supplied(last.header) /\ ~PassesVerification(HeaderToken(last.header)))
        => /\ last.status = 401
           /\ last.detail = MsgInvalid
           /\ ~LastAuth.ok

\* C2: whenever the guard returns a vendor, it is the approved_vendors row
\* linked to the subject the token was decoded to, and its status is 'active';
\* GET /me returns exactly that row.
DecodedSub(h) ==
    IF HeaderToken(h) = MOCK_TEST_TOKEN THEN TEST_USER_AUTH_ID_FOR_BACKDOOR
    ELSE TokenClaims[HeaderToken(h)].sub

C2_ReturnedVendorActive ==
    /\ \A h \in AuthHeaders :
          LET a == getAuthenticatedVendor(h, approved_vendors)
          IN  a.ok => /\ a.vendor \in approved_vendors
                      /\ a.vendor.user_id = DecodedSub(h)
                      /\ a.vendor.status = "active"
    /\ (last.op = "GET /me" /\ last.status = 200)
          => /\ last.body[1] \in approved_vendors
             /\ last.body[1].user_id = DecodedSub(last.header)
             /\ last.body[1].status = "active"

C2_Witness ==
    /\ last.op = "GET /me" /\ last.status = 200
    /\ last.header = Bearer("jwt-uA") /\ last.body[1].id = "vA"

Position(steps, x) == CHOOSE i \in DOMAIN steps : steps[i] = x

C4_GuardOrdering ==
    Requested =>
        /\ ("lookup" \in Range(last.steps))
              => /\ Supplied(last.header)
                 /\ PassesVerification(HeaderToken(last.header))
                 /\ "verify" \in Range(last.steps)
                 /\ Position(last.steps, "verify") < Position(last.steps, "lookup")
        /\ \A i \in DOMAIN last.steps :
              last.steps[i] \in StorageSteps
                  => /\ LastAuth.ok
                     /\ "lookup" \in Range(last.steps)
                     /\ Position(last.steps, "lookup") < i

\* C5: at every protected endpoint a failure of the guard is answered with the
\* guard's own message and 401 (credential missing or invalid) or 403 (not an
\* active approved vendor), never another status.
C5_AuthFailureMapping ==
    (Requested /\ ~LastAuth.ok)
        => /\ last.detail = LastAuth.error
           /\ last.status = (IF LastAuth.error \in {MsgMissing, MsgInvalid} THEN 401 ELSE 403)

\* The guard's answer to the header of the request being served in this step.
NextAuth == getAuthenticatedVendor(last'.header, approved_vendors)

\* This step serves a request to endpoint op.
Serves(op) == last = Idle /\ last'.op = op

\* C6: GET /posts returns exactly the stored posts whose vendor_id and
\* config_id are the caller's, each once, newest first by created_at; no
\* returned post belongs to another vendor.
C6_ListOwnPostsNewestFirst ==
    (last.op = "GET /posts" /\ last.status = 200)
        => LET caller == LastAuth.vendor
               own == {p \in posts : p.vendor_id = caller.id /\ p.config_id = caller.config_id}
           IN  /\ Range(last.body) = own
               /\ Len(last.body) = Cardinality(own)
               /\ \A i, j \in DOMAIN last.body :
                     i < j => last.body[i].created_at >= last.body[j].created_at
               /\ \A i \in DOMAIN last.body : last.body[i].vendor_id = caller.id

C6_Witness ==
    /\ last.op = "GET /posts" /\ last.status = 200
    /\ Len(last.body) = 2
    /\ last.body[1].created_at > last.body[2].created_at
    /\ \E p \in posts : p.vendor_id # LastAuth.vendor.id

\* C7: no request changes the vendor_id or config_id of a stored post, and a
\* row that is inserted carries the id and tenant of the authenticated vendor.
C7_OwnerAndTenantFixed ==
    [][\A q \in posts' :
          IF \E p \in posts : p.edit_token = q.edit_token
          THEN \A p \in posts :
                  p.edit_token = q.edit_token
                      => q.vendor_id = p.vendor_id /\ q.config_id = p.config_id
          ELSE /\ NextAuth.ok
               /\ q.vendor_id = NextAuth.vendor.id
               /\ q.config_id = NextAuth.vendor.config_id]_vars

\* C8: a Create whose category_id is not in the authenticated vendor's
\* allowed_categories is answered 403 with the category message and inserts no
\* row.
DraftCategoryAllowed(body, vendor) ==
    /\ "category_id" \in DOMAIN body.post_data
    /\ body.post_data.category_id \in vendor.allowed_categories

C8_DisallowedCategoryRejected ==
    [][(Serves("POST /posts") /\ NextAuth.ok /\ last'.req[1].has_post_data
            /\ ~DraftCategoryAllowed(last'.req[1], NextAuth.vendor))
          => /\ last'.status = 403
             /\ last'.detail = MsgCategory
             /\ posts' = posts]_vars

C8_Witness ==
    /\ last.op = "POST /posts" /\ last.status = 403
    /\ last.header = Bearer("jwt-uT")
    /\ last.req[1] = PostData(DraftForged)

\* C9: an Update that matches no row of the caller (no such post, or another
\* vendor's post) is answered 404, and 200 is answered only when a row owned by
\* the caller was updated.
OwnedBy(table, postId, vendor) == {p \in table : p.id = postId /\ p.vendor_id = vendor.id}

C9_UnmatchedUpdateNotFound ==
    [][(Serves("PATCH /posts/{id}") /\ NextAuth.ok /\ last'.req[2].has_updates)
          => /\ OwnedBy(posts, last'.req[1], NextAuth.vendor) = {} => last'.status = 404
             /\ last'.status = 200 => OwnedBy(posts, last'.req[1], NextAuth.vendor) # {}]_vars

\* C10: an Update leaves every row the caller does not own unchanged, and the
\* set of post ids is the same before and after it.
C10_UpdateFrame ==
    [][Serves("PATCH /posts/{id}")
          => /\ {p.id : p \in posts'} = {p.id : p \in posts}
             /\ \A p \in posts :
                   (~NextAuth.ok \/ p.vendor_id # NextAuth.vendor.id) => p \in posts']_vars

\* Rows of the table before and after a step are the same post when they carry
\* the same edit token (no request of the model rewrites it).
SamePost(p, q) == p.edit_token = q.edit_token

\* C11: no request changes the category_id or subcategory_id of a stored
\* post; an Update that carries them leaves them as they were.
C11_CategoryImmutable ==
    [][\A p \in posts, q \in posts' :
          SamePost(p, q) => /\ q.category_id = p.category_id
                            /\ q.subcategory_id = p.subcategory_id]_vars

\* C12: a successful Create inserts exactly one row, with a fresh id and edit
\* token, the authenticated vendor's id and tenant, status 'verified', no
\* photos, is_vendor_post true, published now and expiring 30 days later,
\* whatever the draft says; the response carries the row's id and edit token,
\* and Get one for that id by the same vendor then returns the row.
C12_CreateDefaults ==
    [][(Serves("POST /posts") /\ last'.status = 200)
          => /\ NextAuth.ok
             /\ \E q \in posts' :
                   /\ posts' = posts \cup {q}
                   /\ \A p \in posts : p.id # q.id /\ p.edit_token # q.edit_token
                   /\ last'.body = <<[postId |-> q.id, editToken |-> q.edit_token]>>
                   /\ q.vendor_id = NextAuth.vendor.id
                   /\ q.config_id = NextAuth.vendor.config_id
                   /\ q.status = "verified"
                   /\ q.photo_urls = <<>>
                   /\ q.is_vendor_post
                   /\ q.published_at = now
                   /\ q.expires_at = now + ThirtyDays
                   /\ LET g == GET_post(last'.header, q.id, approved_vendors', posts')
                      IN  g.status = 200 /\ g.body = <<q>>]_vars

C12_Witness ==
    /\ last.op = "POST /posts" /\ last.status = 200
    /\ last.header = Bearer("jwt-uA")
    /\ last.req[1] = PostData(DraftForged)
    /\ \E q \in posts : q.id = last.body[1].postId /\ q.vendor_id = "vA" /\ q.status = "verified"

\* C13: a Create whose draft lacks title, price or category_id is answered
\* 400 and inserts no row.
RequiredFields == {"title", "price", "category_id"}

C13_MissingFieldsRejected ==
    [][(Serves("POST /posts") /\ NextAuth.ok /\ last'.req[1].has_post_data
            /\ ~(RequiredFields \subseteq DOMAIN last'.req[1].post_data))
          => /\ last'.status = 400
             /\ posts' = posts]_vars

\* C14: a successful Repost of an owned post p stores a post q with another
\* id and another edit token, p's category, status 'verified', is_scraped
\* false, no scraped_url, and expiring 30 days after it is published; the
\* response carries q's id and edit token.
C14_RepostFresh ==
    [][(Serves("POST /posts/{id}/repost") /\ last'.status = 200)
          => /\ NextAuth.ok
             /\ \E p \in posts, q \in posts' \ posts :
                   /\ p.id = last'.req[1] /\ p.vendor_id = NextAuth.vendor.id
                   /\ q.id # p.id
                   /\ q.edit_token # p.edit_token
                   /\ q.category_id = p.category_id
                   /\ q.status = "verified"
                   /\ ~q.is_scraped
                   /\ q.scraped_url = Null
                   /\ q.expires_at - q.published_at = ThirtyDays
                   /\ last'.body = <<[postId |-> q.id, editToken |-> q.edit_token]>>]_vars

C14_Witness ==
    /\ last.op = "POST /posts/{id}/repost" /\ last.status = 200
    /\ \E p, q \in posts :
          /\ p.id = last.req[1] /\ p.status = "pending" /\ p.is_scraped
          /\ q.id = last.body[1].postId /\ q.status = "verified" /\ ~q.is_scraped

\* C15: a Repost leaves every stored row, the original included, as it was; a
\* successful Repost adds exactly one row and a failed one adds none.
C15_RepostAdditive ==
    [][Serves("POST /posts/{id}/repost")
          => /\ posts \subseteq posts'
             /\ last'.status = 200 => Cardinality(posts' \ posts) = 1
             /\ last'.status # 200 => posts' = posts]_vars

C15_Witness ==
    /\ last.op = "POST /posts/{id}/repost" /\ last.status = 200
    /\ \E p, q \in posts :
          /\ p.id = last.req[1] /\ q.id = last.body[1].postId
          /\ p # q /\ q.title = p.title

\* C16: Delete calls the delete-post function only after its owner-scoped
\* lookup found the post, and with that post's stored edit_token, id and
\* config_id; when the function fails (error status, or a reply without
\* success) Delete answers with a failure and no row and no image is removed;
\* Delete answers 200 only when the function succeeded.
C16_DeleteCleanup ==
    [][(Serves("DELETE /posts/{id}") /\ NextAuth.ok)
          => LET own     == OwnedBy(posts, last'.req[1], NextAuth.vendor)
                 outcome == last'.req[2]
                 called  == "fn.delete-post" \in Range(last'.steps)
                 cleaned == outcome.ok /\ outcome.success
             IN  /\ called <=> own # {}
                 /\ called =>
                       /\ Position(last'.steps, "posts.select")
                             < Position(last'.steps, "fn.delete-post")
                       /\ \E p \in own :
                             last'.body = <<[fn |-> "delete-post", token |-> p.edit_token,
                                            postId |-> p.id, config_id |-> p.config_id]>>
                 /\ (called /\ ~cleaned)
                       => last'.status >= 400 /\ posts' = posts /\ images' = images
                 /\ last'.status = 200 => called /\ cleaned]_vars

C16_Witness ==
    /\ last.op = "DELETE /posts/{id}" /\ last.status = 500
    /\ last.req[2].ok /\ ~last.req[2].success
    /\ "fn.delete-post" \in Range(last.steps)
    /\ \E p \in posts : p.id = last.req[1]

\* C17: once a vendor's Delete of a post was answered 200, every later Get one
\* and every later Delete of a vendor for that id is answered 404.
C17_DeletedStaysGone ==
    [][((Serves("GET /posts/{id}") \/ Serves("DELETE /posts/{id}"))
            /\ NextAuth.ok /\ last'.req[1] \in deleted)
          => last'.status = 404]_vars

\* The response to the request being served, had it named a post id that is
\* not stored (0), the tables being those before the step.
IfMissing(dbError) ==
    LET h == last'.header
    IN  CASE last'.op = "GET /posts/{id}" -> GET_post(h, 0, approved_vendors, posts)
          [] last'.op = "PATCH /posts/{id}" ->
                PATCH_post(h, 0, last'.req[2], approved_vendors, posts, now, dbError)
          [] last'.op = "DELETE /posts/{id}" ->
                DELETE_post(h, 0, approved_vendors, posts, images, last'.req[2])
          [] OTHER -> POST_repost(h, 0, approved_vendors, posts, uuidCount, now, dbError)

OnePostOps ==
    {"GET /posts/{id}", "PATCH /posts/{id}", "DELETE /posts/{id}", "POST /posts/{id}/repost"}

\* C18: Get one, Update, Delete and Repost answer a request that names
\* another vendor's post with 404, and with the very response they give for
\* an id that is not stored (storage errors, answered 500, aside).
C18_NotFoundConflation ==
    [][(/\ last = Idle /\ last'.op \in OnePostOps
        /\ NextAuth.ok
        /\ last'.status # 500
        /\ last'.op = "PATCH /posts/{id}" => last'.req[2].has_updates
        /\ \E p \in posts : p.id = last'.req[1] /\ p.vendor_id # NextAuth.vendor.id)
          => /\ last'.status = 404
             /\ \E dbError \in BOOLEAN :
                   Public(IfMissing(dbError)) = <<last'.status, last'.detail, last'.body>>]_vars

ReadOps == {"GET /me", "GET /categories", "GET /config/{id}", "GET /posts", "GET /posts/{id}"}

\* C19: profile, categories, config, List and Get one requests leave the
\* posts table, the vendors and the stored images as they were, and a second
\* Get one for the same id by the same vendor, sent right after the first,
\* gets the same response.
C19_ReadsEffectFree ==
    [][(last = Idle /\ last'.op \in ReadOps)
          => /\ posts' = posts
             /\ approved_vendors' = approved_vendors
             /\ images' = images
             /\ last'.op = "GET /posts/{id}"
                   => Public(GET_post(last'.header, last'.req[1], approved_vendors', posts'))
                        = <<last'.status, last'.detail, last'.body>>]_vars

C19_Witness ==
    /\ last.op = "GET /posts/{id}" /\ last.status = 200
    /\ last.header = Bearer("jwt-uA")
    /\ last.body[1] \in posts

\* The category names of the table in ascending order.
Alphabetical == <<"Books", "Vehicles">>

\* C20: GET /categories of an authenticated vendor returns exactly the
\* categories whose id is in the vendor's allowed_categories, each once,
\* ordered by name ascending (unless the storage query fails); a vendor with
\* no allowed category gets 200 and no category.
C20_AllowedCategoriesByName ==
    (last.op = "GET /categories" /\ LastAuth.ok)
        => LET allowed == {c \in Categories : c.id \in LastAuth.vendor.allowed_categories}
           IN  /\ last.status = 200 \/ (last.status = 500 /\ last.detail = MsgCategoriesFailed)
               /\ last.status = 200
                     => /\ Range(last.body) = allowed
                        /\ Len(last.body) = Cardinality(allowed)
                        /\ \A i, j \in DOMAIN last.body :
                              i < j => Position(Alphabetical, last.body[i].name)
                                         < Position(Alphabetical, last.body[j].name)
               /\ LastAuth.vendor.allowed_categories = {}
                     => last.status = 200 /\ last.body = <<>>

C20_Witness ==
    /\ last.op = "GET /categories" /\ last.status = 200
    /\ last.header = Bearer("jwt-uA")
    /\ Len(last.body) = 2
    /\ last.body[1].id = "c2" /\ last.body[2].id = "c1"

\* A vendor to whom no category is assigned has asked for its categories.
C20_EmptyServed ==
    /\ last.op = "GET /categories" /\ last.status = 200
    /\ LastAuth.ok /\ LastAuth.vendor.allowed_categories = {}

\* A required field of the upload form is absent.
FormIncomplete(form) == form.token = 0 \/ form.postId = 0 \/ form.config_id = "" \/ ~form.image

\* C21: the upload proxy answers an authenticated request whose form lacks
\* token, postId, config_id or image with 400 and does not call the
\* upload-post-image function; with a complete form it calls the function,
\* answers with the function's status when that is an error status, and
\* otherwise hands back the function's reply.
C21_UploadProxy ==
    [][(Serves("POST /upload-image") /\ NextAuth.ok)
          => LET form    == last'.req[1]
                 outcome == last'.req[2]
                 called  == "fn.upload-post-image" \in Range(last'.steps)
             IN  /\ FormIncomplete(form)
                       => /\ last'.status = 400 /\ ~called
                          /\ posts' = posts /\ images' = images
                 /\ ~FormIncomplete(form)
                       => /\ called
                          /\ ~outcome.ok => last'.status = outcome.status /\ posts' = posts
                          /\ outcome.ok
                                => /\ last'.status = 200
                                   /\ \E u \in images' \ images : last'.body = <<[url |-> u]>>]_vars

C21_Witness ==
    /\ last.op = "POST /upload-image" /\ last.status = 413
    /\ LastAuth.ok /\ ~FormIncomplete(last.req[1])
    /\ "fn.upload-post-image" \in Range(last.steps)

\* C28: in every reachable state a stored post has has_photo true exactly
\* when its photo_urls list is not empty.
C28_HasPhotoIffPhotos ==
    \A p \in posts : p.has_photo <=> (p.photo_urls # <<>>)

\* The ids of the posts List answers the header's vendor with.
Listed(h) ==
    LET r == GET_posts(h, approved_vendors, posts, "up", FALSE)
    IN  {r.body[i].id : i \in DOMAIN r.body}

\* C29: for an authenticated vendor, Get one answers a stored post id with
\* 200, and Delete and Repost find the post, exactly when that post is in
\* the vendor's List result.
C29_ListAndSinglePostAgree ==
    \A h \in LifecycleHeaders : \A p \in posts :
        getAuthenticatedVendor(h, approved_vendors).ok
            => LET listed == p.id \in Listed(h)
               IN  /\ (GET_post(h, p.id, approved_vendors, posts).status = 200) <=> listed
                   /\ (POST_repost(h, p.id, approved_vendors, posts, uuidCount, now, FALSE).status # 404)
                         <=> listed
                   /\ (\A o \in DeleteOutcomes :
                          DELETE_post(h, p.id, approved_vendors, posts, images, o).status # 404)
                         <=> listed

\* C24: every post that Create or Repost inserts has a category_id that is,
\* when the row is inserted, one of the allowed_categories of the vendor
\* who sends the request.
C24_InsertedCategoryAllowed ==
    [][(Serves("POST /posts") \/ Serves("POST /posts/{id}/repost"))
          => \A p \in posts' \ posts : p.category_id \in NextAuth.vendor.allowed_categories]_vars

\* C30: every URL in the photo_urls of a stored post is the URL of an image
\* that is in storage: no Delete has removed an image that a post which
\* still exists refers to.
C30_PhotoUrlsStored ==
    \A p \in posts : Range(p.photo_urls) \subseteq images

\* The users whose email and password a login body carries.
SignedIn(body) == {u \in AuthUsers : u.email = body.email /\ u.password = body.password}

\* The active vendors a user is linked to.
ActiveVendorsOf(u) == {v \in approved_vendors : v.user_id = u.id /\ v.status = "active"}

\* C23: POST /token hands out an access token and a vendor_id only when the
\* password sign-in succeeded and the user is linked to an active vendor,
\* whose id it returns; email and password that match no user are answered
\* 401; a signed-in user without a linked active vendor is answered 403
\* without a token, and the session just opened is signed out.
C23_TokenOnlyForActiveVendor ==
    [][Serves("POST /token")
          => LET body == last'.req[1]
             IN  /\ (last'.status = 200 \/ last'.body # <<>>)
                       => \E u \in SignedIn(body) : \E v \in ActiveVendorsOf(u) :
                             /\ last'.status = 200
                             /\ last'.body[1].vendor_id = v.id
                             /\ JwtVerify(last'.body[1].access_token) = [ok |-> TRUE, sub |-> u.id]
                 /\ (body.email # "" /\ body.password # "" /\ SignedIn(body) = {})
                       => last'.status = 401 /\ last'.body = <<>>
                 /\ (\E u \in SignedIn(body) : ActiveVendorsOf(u) = {})
                       => /\ last'.status = 403 /\ last'.body = <<>>
                          /\ session' = Null]_vars

C23_Witness ==
    /\ last.op = "POST /token" /\ last.status = 403 /\ session = Null
    /\ \E u \in SignedIn(last.req[1]) :
          \E v \in approved_vendors : v.user_id = u.id /\ v.status # "active"

\* The posts table after the field-set of request a and then the field-set
\* of request b were written to the table the two requests found.
OneAfterTheOther(a, b) ==
    UpdateRows(UpdateRows({ListedPost}, a.postId, a.vendor, a.updates),
               b.postId, b.vendor, b.updates)

\* C25: when two Update requests were both answered 200, the stored rows are
\* those that result from writing the two field-sets one after the other, in
\* one of the two orders.
C25_ConcurrentUpdatesSerialize ==
    \A a, b \in inflight :
        (a.slot = 1 /\ b.slot = 2 /\ a.status = 200 /\ b.status = 200)
            => posts \in {OneAfterTheOther(a, b), OneAfterTheOther(b, a)}

\* Both requests changed the same post and were in service at the same time.
C25_Witness ==
    \E a, b \in inflight :
        /\ a.slot = 1 /\ b.slot = 2 /\ a.status = 200 /\ b.status = 200
        /\ a.postId = 1 /\ b.postId = 1 /\ a.vendor.id = "vA" /\ b.vendor.id = "vA"
        /\ (a.slot \in b.rivals \/ b.slot \in a.rivals)
        /\ "title" \in DOMAIN a.updates /\ "title" \in DOMAIN b.updates
        /\ a.updates.title # b.updates.title
        /\ posts # {ListedPost}

\* The bearer tokens issued to the signed-in vendor's user.
VendorTokens == {t \in Tokens : TokenClaims[t].sig /\ TokenClaims[t].sub = "uA"}

\* C22: every image upload the dashboard sends goes to the proxy endpoint
\* with the vendor's bearer token, reaches the upload-post-image function
\* only after the guard accepted it, and browser code does not read or send
\* the service key.
C22_UploadsThroughProxy ==
    \A i \in DOMAIN browser.uploads :
        LET u == browser.uploads[i]
        IN  u.status # 0
              => /\ u.to = "/api/vendor/upload-image"
                 /\ HeaderToken(u.auth) \in VendorTokens
                 /\ ~u.keyRead
                 /\ u.reached => u.guarded

\* C26: the photo loop uploads the selected files one at a time in the order
\* of selection; once the loop is left every selected file has been
\* attempted; and when an upload failed, the page does not report that all
\* photos were uploaded, and the error shown names a file that failed.
C26_PhotoLoopReportsFailures ==
    LET log == browser.uploads
        failed == {i \in DOMAIN log : log[i].status # 200}
    IN  /\ \A i \in DOMAIN log : log[i].file = i
        /\ browser.pc # "upload" => browser.queue = <<>>
        /\ failed # {}
              => /\ browser.formSuccess \notin {MsgCreatedAllUploaded, MsgUpdatedAllUploaded}
                 /\ browser.formError.file \in failed

\* C27: after a 401 response to a request of a dashboard page the stored
\* access token, vendor id and email are cleared, isAuthenticated() is false
\* and the login page is open.
C27_UnauthenticatedClearsSession ==
    last.status = 401
        => /\ ~isAuthenticated(browser)
           /\ browser.vendor_id = Null /\ browser.email = Null
           /\ browser.page = "login"
====
